---- MODULE Spec2Model ----
(***************************************************************************)
(* Cash-flow forecasting engine of spenditure: generateMockForecast and    *)
(* its inner getNextPayday (src/unnamed/part_000, lines 390-607).          *)
(*                                                                         *)
(* Time.  A JavaScript Date is modelled by its getTime() value, an integer *)
(* number of time units since 1970-01-01T00:00Z.  The unit of the model is *)
(* four hours instead of a millisecond, so that one day is 6 units, noon   *)
(* is 3 units after midnight and a time zone 8 hours ahead of UTC is 2     *)
(* units ahead.  The calendar fields of a Date (getDate, getMonth, getDay, *)
(* setHours, setDate, new Date(y, m, d)) are those of the local time zone  *)
(* of the process, which has no daylight saving; the date key of           *)
(* toISOString() is the calendar day of UTC.  Outside UTC the two name     *)
(* different days for part of every day.                                   *)
(*                                                                         *)
(* Money.  The amounts and the balance that a call is given are whole      *)
(* numbers.  The only division of the engine is by the 1, 2 or 4 pay       *)
(* periods of a month, so every number the engine computes is a whole      *)
(* number of quarters, which floating point holds and adds exactly.  A     *)
(* computed number is the fraction [num, den] in lowest terms, den being   *)
(* 1, 2 or 4: 7500.25 is [num |-> 30001, den |-> 4], -0.5 is               *)
(* [num |-> -1, den |-> 2] and 1000 is [num |-> 1000, den |-> 1].          *)
(***************************************************************************)
EXTENDS Integers, Sequences, FiniteSets

\* 24 * 60 * 60 * 1000 in the source; 6 in the model's time unit of 4 hours.
oneDayInMillis == 6

\* The offset of the local time zone of the process from UTC, in time units
\* (LocalTZA of the Date object): local time = UTC time + localTZA.
VARIABLE localTZA

\* The time zones of the calls: UTC, and Asia/Manila, 8 hours ahead of UTC.
TimeZones == {0, 2}

(***************************************************************************)
(* Calendar arithmetic of the JavaScript Date object (proleptic Gregorian, *)
(* months 0..11, out-of-range fields carried into the next larger field).  *)
(***************************************************************************)
FloorDiv(a, b) == a \div b

IsLeap(y) == (y % 4 = 0 /\ y % 100 # 0) \/ y % 400 = 0

DaysInMonth(y, m) ==
    IF m = 1 THEN (IF IsLeap(y) THEN 29 ELSE 28)
    ELSE IF m \in {3, 5, 8, 10} THEN 30 ELSE 31

\* Days from 1970-01-01 to January 1st of year y (y >= 1970).
DaysBeforeYear(y) ==
    365 * (y - 1970) + FloorDiv(y - 1969, 4) - FloorDiv(y - 1901, 100)
        + FloorDiv(y - 1601, 400)

RECURSIVE DaysBeforeMonth(_, _)
DaysBeforeMonth(y, m) ==
    IF m = 0 THEN 0 ELSE DaysBeforeMonth(y, m - 1) + DaysInMonth(y, m - 1)

\* MakeDay: the epoch day of (year, month, day-of-month); the month may lie
\* outside 0..11 and the day outside the month, both are carried.
MakeDay(y, m, d) ==
    LET yy == y + FloorDiv(m, 12)
        mm == m % 12
    IN  DaysBeforeYear(yy) + DaysBeforeMonth(yy, mm) + (d - 1)

RECURSIVE YearOfDay(_, _)
YearOfDay(n, y) == IF DaysBeforeYear(y + 1) > n THEN y ELSE YearOfDay(n, y + 1)

RECURSIVE MonthOfDay(_, _, _)
MonthOfDay(n, y, m) ==
    IF DaysBeforeYear(y) + DaysBeforeMonth(y, m + 1) > n THEN m
    ELSE MonthOfDay(n, y, m + 1)

\* The epoch day of UTC an instant lies in.
DayOf(t) == FloorDiv(t, oneDayInMillis)
\* The epoch day of the local time zone an instant lies in, its local time
\* within that day, and the instant of a local day and time.
LocalDayOf(t) == DayOf(t + localTZA)
TimeInDay(t) == (t + localTZA) % oneDayInMillis
LocalInstant(day, time) == day * oneDayInMillis + time - localTZA

getFullYear(t) ==
    YearOfDay(LocalDayOf(t), 1970 + FloorDiv(LocalDayOf(t), 366))
getMonth(t) == MonthOfDay(LocalDayOf(t), getFullYear(t), 0)
getDate(t) ==
    LocalDayOf(t) - MakeDay(getFullYear(t), getMonth(t), 1) + 1
\* 0 (Sunday) .. 6 (Saturday); 1970-01-01 was a Thursday.
getDay(t) == (LocalDayOf(t) + 4) % 7

\* setHours(0, 0, 0, 0): local midnight of the local day.
setHours0(t) == LocalInstant(LocalDayOf(t), 0)
setDate(t, d) ==
    LocalInstant(MakeDay(getFullYear(t), getMonth(t), d), TimeInDay(t))
setMonth(t, m) ==
    LocalInstant(MakeDay(getFullYear(t), m, getDate(t)), TimeInDay(t))
setFullYear(t, y) ==
    LocalInstant(MakeDay(y, getMonth(t), getDate(t)), TimeInDay(t))
\* new Date(year, month, day): local midnight of that day.
NewDate(y, m, d) == LocalInstant(MakeDay(y, m, d), 0)
\* toISOString().split('T')[0]: the calendar day of UTC, named by its epoch
\* day.
DateKey(t) == DayOf(t)
\* new Date("YYYY-MM-DD") of a date input: midnight UTC of that day.
DateInput(day) == day * oneDayInMillis


(***************************************************************************)
(* Values.  null (Date | null, UserProfile | null) is NULL; every Date is  *)
(* a non-negative integer and every profile a record.                      *)
(***************************************************************************)
NULL == -1
NullProfile == [isNull |-> TRUE]

\* A whole number as a computed number.
Whole(n) == [num |-> n, den |-> 1]

\* The computed number p / q in lowest terms, for q in {1, 2, 4}.
Fraction(p, q) ==
    IF p % q = 0 THEN Whole(p \div q)
    ELSE IF q = 4 /\ p % 2 = 0 THEN [num |-> p \div 2, den |-> 2]
    ELSE [num |-> p, den |-> q]

\* The number of quarters a computed number holds.
Quarters(a) == a.num * (4 \div a.den)

\* a + b, a - b and a < 0 of JavaScript numbers.
Plus(a, b) == Fraction(Quarters(a) + Quarters(b), 4)
Minus(a, b) == Fraction(Quarters(a) - Quarters(b), 4)
IsNegative(a) == a.num < 0

\* new Map<string, number>(): a function on the date keys that were set.
EmptyMap == [k \in {} |-> Whole(0)]
\* transactionsByDay.get(dateKey) || 0
MapGet(map, k) == IF k \in DOMAIN map THEN map[k] ELSE Whole(0)

\* transactionsByDay.set(dateKey, (transactionsByDay.get(dateKey) || 0) + amount)
MapAdd(map, k, amount) ==
    [x \in (DOMAIN map) \cup {k} |->
        IF x = k THEN Plus(MapGet(map, k), amount) ELSE map[x]]

(***************************************************************************)
(* Horizon determination, lines 394-424.                                   *)
(***************************************************************************)
\* Faulty variant: the status of an income is not looked at.
IncomeRelevantAnyStatus(inc, tdy) == inc.dueDate >= tdy

\* Lines 399, 409, 435, 443: the filters of the two record lists.
IncomeRelevant(inc, tdy) == inc.status = "Outstanding" /\ inc.dueDate >= tdy
ExpenseRelevant(exp, tdy) == exp.date >= tdy

RECURSIVE MaxIncomeDate(_, _, _, _)
MaxIncomeDate(incs, tdy, k, best) ==
    IF k > Len(incs) THEN best
    ELSE MaxIncomeDate(incs, tdy, k + 1,
            IF IncomeRelevant(incs[k], tdy) /\ incs[k].dueDate > best
            THEN incs[k].dueDate ELSE best)

RECURSIVE MaxExpenseDate(_, _, _, _)
MaxExpenseDate(exps, tdy, k, best) ==
    IF k > Len(exps) THEN best
    ELSE MaxExpenseDate(exps, tdy, k + 1,
            IF ExpenseRelevant(exps[k], tdy) /\ exps[k].date > best
            THEN exps[k].date ELSE best)

MaxRelevantDate(incs, exps, tdy) ==
    MaxExpenseDate(exps, tdy, 1, MaxIncomeDate(incs, tdy, 1, tdy))

\* Faulty variant: the day count is rounded up instead of down.
DaysToProjectCeil(maxDate, tdy) ==
    FloorDiv(maxDate - tdy + oneDayInMillis - 1, oneDayInMillis)

\* Math.floor((maxRelevantDate.getTime() - today.getTime()) / oneDayInMillis)
DaysToProject(maxDate, tdy) == FloorDiv(maxDate - tdy, oneDayInMillis)

MinProjectionDays == 30

\* Faulty variant: the projection has no minimum length.
EffectiveProjectionDaysNoMin(maxDate, tdy) == DaysToProject(maxDate, tdy)

\* Math.max(daysToProject, 30)
EffectiveProjectionDays(maxDate, tdy) ==
    IF DaysToProject(maxDate, tdy) > MinProjectionDays
    THEN DaysToProject(maxDate, tdy) ELSE MinProjectionDays

\* chartEndDate.setDate(today.getDate() + effectiveProjectionDays)
ChartEndDate(tdy, days) == setDate(tdy, getDate(tdy) + days)

(***************************************************************************)
(* Event aggregation of the incomes and expenses, lines 431-447.           *)
(***************************************************************************)
RECURSIVE AddIncomes(_, _, _, _)
AddIncomes(map, incs, tdy, k) ==
    IF k > Len(incs) THEN map
    ELSE AddIncomes(
            IF IncomeRelevant(incs[k], tdy)
            THEN MapAdd(map, DateKey(incs[k].dueDate), Whole(incs[k].amount))
            ELSE map,
            incs, tdy, k + 1)

RECURSIVE AddExpenses(_, _, _, _)
AddExpenses(map, exps, tdy, k) ==
    IF k > Len(exps) THEN map
    ELSE AddExpenses(
            IF ExpenseRelevant(exps[k], tdy)
            THEN MapAdd(map, DateKey(exps[k].date),
                        Minus(Whole(0), Whole(exps[k].amount)))
            ELSE map,
            exps, tdy, k + 1)

(***************************************************************************)
(* Salary recurrence, lines 452-551.                                       *)
(***************************************************************************)
\* Faulty variant: the deductions of the list are counted twice.
RECURSIVE SumDeductionsTwice(_, _)
SumDeductionsTwice(deds, k) ==
    IF k > Len(deds) THEN 0
    ELSE 2 * deds[k].amount + SumDeductionsTwice(deds, k + 1)

\* Line 454: userProfile.deductions.reduce((sum, ded) => sum + ded.amount, 0)
RECURSIVE SumDeductions(_, _)
SumDeductions(deds, k) ==
    IF k > Len(deds) THEN 0 ELSE deds[k].amount + SumDeductions(deds, k + 1)

NumPayrollsPerMonth(frequency) ==
    IF frequency = "monthly" THEN 1
    ELSE IF frequency = "fortnightly" THEN 2
    ELSE IF frequency = "weekly" THEN 4
    ELSE 0

\* A division by zero does not throw in JavaScript: it yields Infinity,
\* -Infinity or NaN.
NonFinite == "NonFinite"

\* Faulty variant: the deductions are not subtracted from the gross salary.
SalaryPerPayPeriodGross(profile) ==
    IF NumPayrollsPerMonth(profile.salaryFrequency) = 0 THEN NonFinite
    ELSE Fraction(profile.salaryIncome,
                  NumPayrollsPerMonth(profile.salaryFrequency))

\* Line 462: netMonthlySalary / numPayrollsPerMonth, a division of numbers
\* (30001 / 4 is 7500.25, -1 / 2 is -0.5).
SalaryPerPayPeriod(profile) ==
    IF NumPayrollsPerMonth(profile.salaryFrequency) = 0 THEN NonFinite
    ELSE Fraction(profile.salaryIncome - SumDeductions(profile.deductions, 1),
                  NumPayrollsPerMonth(profile.salaryFrequency))

PaydayMonthly(currentDate) ==
    LET p0 == setDate(setHours0(currentDate), 15)
        p1 == IF p0 < currentDate
              THEN setDate(setMonth(p0, getMonth(p0) + 1), 15)
              ELSE p0
        p2 == IF getDate(p1) < getDate(currentDate)
                 /\ getMonth(p1) = getMonth(currentDate)
              THEN setMonth(p1, getMonth(p1) + 1)
              ELSE p1
        p3 == IF getMonth(p2)
                 # (getMonth(currentDate)
                      + (IF p2 < currentDate THEN 1 ELSE 0)) % 12
              THEN NewDate(getFullYear(p2), getMonth(p2), 0)
              ELSE p2
    IN  p3

PaydayFortnightly(currentDate) ==
    LET p0 == setHours0(currentDate)
        day == getDate(currentDate)
        p1 == IF day <= 1 THEN setDate(p0, 1)
              ELSE IF day <= 15 THEN setDate(p0, 15)
              ELSE setDate(setMonth(p0, getMonth(p0) + 1), 1)
        p2 == IF p1 < currentDate THEN setDate(p1, getDate(p1) + 14) ELSE p1
    IN  p2

\* Faulty variant: a cursor on a Monday is its own payday.
PaydayWeeklySameDay(currentDate) ==
    LET p0 == setHours0(currentDate)
        dayOfWeek == getDay(p0)
        daysUntilNextMonday ==
            IF dayOfWeek = 0 THEN 1
            ELSE IF dayOfWeek = 1 THEN 0
            ELSE 8 - dayOfWeek
    IN  setDate(p0, getDate(p0) + daysUntilNextMonday)

PaydayWeekly(currentDate) ==
    LET p0 == setHours0(currentDate)
        dayOfWeek == getDay(p0)
        daysUntilNextMonday ==
            IF dayOfWeek = 0 THEN 1
            ELSE IF dayOfWeek = 1 THEN 7
            ELSE 8 - dayOfWeek
        p1 == setDate(p0, getDate(p0) + daysUntilNextMonday)
        p2 == IF p1 < currentDate THEN setDate(p1, getDate(p1) + 7) ELSE p1
    IN  p2

getNextPayday(currentDate, frequency) ==
    IF frequency = "monthly" THEN setHours0(PaydayMonthly(currentDate))
    ELSE IF frequency = "fortnightly"
    THEN setHours0(PaydayFortnightly(currentDate))
    ELSE IF frequency = "weekly" THEN setHours0(PaydayWeekly(currentDate))
    ELSE NULL

\* projectionLimitDate: one day beyond chartEndDate.
ProjectionLimitDate(chartEnd) == setDate(chartEnd, getDate(chartEnd) + 1)

MaxSalaryLoops == 100

\* Faulty variant: the cursor stays on the payday.
AdvanceCursorSameDay(nextPay) == nextPay

\* Lines 545-546: tempDate = new Date(nextPay); tempDate.setDate(getDate() + 1)
AdvanceCursor(nextPay) == setDate(nextPay, getDate(nextPay) + 1)

\* Faulty variant: the while loop has no safety bound.
SalaryLoopContinuesUnbounded(temp, limit, count) == temp <= limit

\* Line 528: the condition of the while loop.
SalaryLoopContinues(temp, limit, count) ==
    temp <= limit /\ count < MaxSalaryLoops


(***************************************************************************)
(* Loan recurrence, lines 555-583.                                         *)
(***************************************************************************)
\* Faulty variant: the stored date is taken as it is, with its time of day.
FirstLoanPaymentAsStored(loan) == loan.nextPaymentDate

\* Lines 557-558: nextLoanPayment at the start of the loan's walk, the stored
\* date at local midnight.
FirstLoanPayment(loan) == setHours0(loan.nextPaymentDate)

\* Lines 572-579: the next payment date after a payment.
AdvanceLoan(nextLoanPayment, paymentFrequency) ==
    setHours0(
        IF paymentFrequency = "monthly"
        THEN setMonth(nextLoanPayment, getMonth(nextLoanPayment) + 1)
        ELSE IF paymentFrequency = "quarterly"
        THEN setMonth(nextLoanPayment, getMonth(nextLoanPayment) + 3)
        ELSE IF paymentFrequency = "annually"
        THEN setFullYear(nextLoanPayment, getFullYear(nextLoanPayment) + 1)
        ELSE nextLoanPayment)

\* The inner for loop of one loan, from index k on.
RECURSIVE ProjectLoan(_, _, _, _, _, _)
ProjectLoan(map, loan, nextLoanPayment, tdy, days, k) ==
    IF k > days THEN map
    ELSE LET iterDate == setHours0(setDate(tdy, getDate(tdy) + k))
         IN  IF iterDate = nextLoanPayment
             THEN ProjectLoan(MapAdd(map, DateKey(iterDate),
                                     Minus(Whole(0), Whole(loan.amount))),
                              loan,
                              AdvanceLoan(nextLoanPayment, loan.paymentFrequency),
                              tdy, days, k + 1)
             ELSE ProjectLoan(map, loan, nextLoanPayment, tdy, days, k + 1)

\* userProfile.loans.forEach, from loan n on.
RECURSIVE ProjectLoans(_, _, _, _, _)
ProjectLoans(map, loans, tdy, days, n) ==
    IF n > Len(loans) THEN map
    ELSE LET after == ProjectLoan(map, loans[n], FirstLoanPayment(loans[n]),
                                  tdy, days, 0)
         IN  \* The callback of loan n has returned before the next one runs.
             IF DOMAIN after = {}
             THEN ProjectLoans(EmptyMap, loans, tdy, days, n + 1)
             ELSE ProjectLoans(after, loans, tdy, days, n + 1)

\* The working date nextLoanPayment of one loan when its inner loop ends.
RECURSIVE LoanWalkEnd(_, _, _, _, _)
LoanWalkEnd(loan, nextLoanPayment, tdy, days, k) ==
    IF k > days THEN nextLoanPayment
    ELSE LET iterDate == setHours0(setDate(tdy, getDate(tdy) + k))
         IN  IF iterDate = nextLoanPayment
             THEN LoanWalkEnd(loan,
                              AdvanceLoan(nextLoanPayment, loan.paymentFrequency),
                              tdy, days, k + 1)
             ELSE LoanWalkEnd(loan, nextLoanPayment, tdy, days, k + 1)

\* Faulty variant: the loop walks the stored Date object itself
\* (let nextLoanPayment = loan.nextPaymentDate).
StoredNextPaymentDateAliased(loan, workingDate) == workingDate

\* Line 557: new Date(loan.nextPaymentDate) is a copy, so the setHours,
\* setMonth and setFullYear calls of lines 558-579 leave the stored date as
\* it was.
StoredNextPaymentDate(loan, workingDate) == loan.nextPaymentDate

\* The loan list of the profile after userProfile.loans.forEach.
LoansAfterWalk(loans, tdy, days) ==
    [n \in 1..Len(loans) |->
        [loans[n] EXCEPT !.nextPaymentDate =
            StoredNextPaymentDate(
                loans[n],
                LoanWalkEnd(loans[n], FirstLoanPayment(loans[n]),
                            tdy, days, 0))]]

(***************************************************************************)
(* Daily walk, lines 586-604.                                              *)
(***************************************************************************)
\* Faulty variant: the series starts from a zero balance.
SeedPointZero(tdy, balance) == [date |-> tdy, balance |-> Whole(0)]

\* Line 586: the first element of forecastData.
SeedPoint(tdy, balance) == [date |-> tdy, balance |-> balance]

\* Faulty variant: the daily loop stops one day early.
WalkContinuesStrict(k, days) == k < days

\* Line 591: the condition of the daily loop.
WalkContinues(k, days) == k <= days

\* Faulty variant: the flag is tested the wrong way round, so that the date
\* is never set.
SetsShortfallInverted(balance, flagged) == IsNegative(balance) /\ flagged

\* Faulty variant: a balance of zero counts as a shortfall.
SetsShortfallAtZero(balance, flagged) == balance.num <= 0 /\ ~flagged

\* Line 598: the condition under which the shortfall date is set.
SetsShortfall(balance, flagged) == IsNegative(balance) /\ ~flagged

\* Faulty variant: the walk advances by two days.
NextIterationDateSkip(d) == setDate(d, getDate(d) + 2)

\* Line 603: currentIterationDate.setDate(currentIterationDate.getDate() + 1)
NextIterationDate(d) == setDate(d, getDate(d) + 1)

(***************************************************************************)
(* The inputs of one call.  today is local midnight of the clock (lines    *)
(* 391-392).  The date of a record comes from a date input (lines 868,     *)
(* 1089, 1403: new Date("YYYY-MM-DD")), which is midnight UTC of the day   *)
(* entered; some records are dated at noon UTC.                            *)
(***************************************************************************)
MaxIncomes == 1
MaxExpenses == 2
MaxDeductions == 1
MaxLoans == 1

\* 2025-01-10 (a Friday, before the 15th), 2025-01-31 (a Friday, last day of
\* a month that a shorter one follows), 2025-03-17 (a Monday, after the 15th).
Todays == {NewDate(2025, 0, 10), NewDate(2025, 0, 31), NewDate(2025, 2, 17)}

Balances == {-50, 0, 1000}

\* The date entered for the calendar day n days after today's.
DueIn(tdy, n) == DateInput(LocalDayOf(tdy) + n)
HalfDay == oneDayInMillis \div 2

Income(status, dueDate, amount) ==
    [status |-> status, dueDate |-> dueDate, amount |-> amount]
Expense(date, amount) == [date |-> date, amount |-> amount]
Deduction(amount) == [amount |-> amount]
Loan(amount, paymentFrequency, nextPaymentDate) ==
    [amount |-> amount, paymentFrequency |-> paymentFrequency,
     nextPaymentDate |-> nextPaymentDate]

\* Indexed so that the arrays drawn from them can be kept in index order.
IncomeChoices(tdy) ==
    << Income("Outstanding", DueIn(tdy, 0), 5000),
       Income("Outstanding", DueIn(tdy, 5), 5000),
       Income("Outstanding", DueIn(tdy, 40) + HalfDay, 300),
       Income("Outstanding", DueIn(tdy, -1) + HalfDay, 700),
       Income("Paid", DueIn(tdy, 50), 900) >>

ExpenseChoices(tdy) ==
    << Expense(DueIn(tdy, 1), 100),
       Expense(DueIn(tdy, 10), 2000),
       Expense(DueIn(tdy, 10), 6000),
       Expense(DueIn(tdy, 45) + HalfDay, 400),
       Expense(DueIn(tdy, -1) + HalfDay, 800) >>

DeductionChoices == << Deduction(5000), Deduction(40000) >>

LoanChoices(tdy) ==
    << Loan(2000, "monthly", DueIn(tdy, 3)),
       Loan(2000, "monthly", DueIn(tdy, 0) + HalfDay),
       Loan(1200, "quarterly", DueIn(tdy, 3)),
       Loan(1600, "annually", DueIn(tdy, -2)) >>

\* The arrays of at most max elements of choices, in index order.
RECURSIVE IndexSeqs(_, _, _)
IndexSeqs(n, max, lo) ==
    IF max = 0 THEN {<<>>}
    ELSE {<<>>} \cup
         UNION {{<<k>> \o rest : rest \in IndexSeqs(n, max - 1, k)} : k \in lo..n}

Arrays(choices, max) ==
    {[j \in 1..Len(ix) |-> choices[ix[j]]] : ix \in IndexSeqs(Len(choices), max, 1)}

Profile(salaryIncome, salaryFrequency, deductions, loans) ==
    [salaryIncome |-> salaryIncome, salaryFrequency |-> salaryFrequency,
     deductions |-> deductions, loans |-> loans]

Frequencies == {"weekly", "fortnightly", "monthly"}

\* Profiles with loans and no salary, with a salary and loans, and with a
\* salary and deductions.  A gross salary of 30001 leaves a net salary that
\* the pay periods do not divide.
Profiles(tdy) ==
    {Profile(0, "monthly", <<>>, ls) : ls \in Arrays(LoanChoices(tdy), MaxLoans)}
    \cup
    {Profile(30000, f, <<>>, ls) :
        f \in Frequencies, ls \in Arrays(LoanChoices(tdy), MaxLoans)}
    \cup
    {Profile(30000, f, ds, <<>>) :
        f \in Frequencies, ds \in Arrays(DeductionChoices, MaxDeductions)}
    \cup
    {Profile(30001, f, ds, <<>>) :
        f \in Frequencies,
        ds \in Arrays(DeductionChoices, MaxDeductions)}

(***************************************************************************)
(* The call of generateMockForecast as a state machine: the arguments, the *)
(* locals of the function, and pc, the place the call has reached.         *)
(***************************************************************************)
VARIABLES today, currentBalance, incomes, expenses, userProfile,
          pc, maxRelevantDate, effectiveProjectionDays, chartEndDate,
          transactionsByDay, projectedSalaryPayments, tempDate, loopCount,
          currentProjectedBalance, potentialShortfallDate, hasShortfall,
          forecastData, currentIterationDate, i

\* The wall clock: now is its latest reading (new Date() at lines 391 and
\* 542), callEnd the time at which the call returns; a reading taken during
\* the call lies between the reading before it and callEnd.  callNo counts
\* the calls made with these arguments and firstCall holds what the first of
\* them returned.
VARIABLES now, callEnd, callNo, firstCall

calls == <<callEnd, callNo, firstCall>>
inputs == <<localTZA, today, currentBalance, incomes, expenses, userProfile>>
horizon == <<maxRelevantDate, effectiveProjectionDays, chartEndDate>>
salary == <<projectedSalaryPayments, tempDate, loopCount>>
walk == <<currentProjectedBalance, potentialShortfallDate, hasShortfall,
          forecastData, currentIterationDate, i>>
vars == <<inputs, now, calls, pc, horizon, transactionsByDay, salary, walk>>

\* What a call returns (line 606), the clock readings of the salary events
\* apart from their other fields.
CallResult(series, shortfall, events) ==
    [forecastData |-> series,
     potentialShortfallDate |-> shortfall,
     projectedSalaryPayments |->
        [k \in 1..Len(events) |->
            [id |-> events[k].id, client |-> events[k].client,
             amount |-> events[k].amount, dueDate |-> events[k].dueDate]],
     createdAt |-> [k \in 1..Len(events) |-> events[k].createdAt]]
NoCall == CallResult(<<>>, NULL, <<>>)

\* One call, made at noon, that returns within the time unit it started in.
SingleCall ==
    /\ now = today + HalfDay
    /\ callEnd = now
    /\ callNo = 1
    /\ firstCall = NoCall

\* The state at entry: the arguments are bound, no local is computed yet.
Entry ==
    /\ pc = "horizon"
    /\ maxRelevantDate = today
    /\ effectiveProjectionDays = 0
    /\ chartEndDate = today
    /\ transactionsByDay = EmptyMap
    /\ projectedSalaryPayments = <<>>
    /\ tempDate = today
    /\ loopCount = 0
    /\ currentProjectedBalance = Whole(currentBalance)
    /\ potentialShortfallDate = NULL
    /\ hasShortfall = FALSE
    /\ forecastData = <<>>
    /\ currentIterationDate = today
    /\ i = 0

\* Calls without a profile over the income and expense records, and calls
\* with a profile (salary, deductions, loans) and at most one expense.
Init ==
    /\ localTZA \in TimeZones
    /\ today \in Todays
    /\ \/ /\ today = NewDate(2025, 0, 10)
          /\ currentBalance \in Balances
          /\ incomes \in Arrays(IncomeChoices(today), MaxIncomes)
          /\ expenses \in Arrays(ExpenseChoices(today), MaxExpenses)
          /\ userProfile = NullProfile
       \/ /\ currentBalance = 1000
          /\ incomes = <<>>
          /\ expenses \in {<<>>, <<Expense(DueIn(today, 5), 100)>>,
                           <<Expense(DueIn(today, 75), 100)>>}
          /\ userProfile \in Profiles(today)
    /\ SingleCall
    /\ Entry

\* Lines 394-424.
FindHorizon ==
    /\ pc = "horizon"
    /\ maxRelevantDate' = MaxRelevantDate(incomes, expenses, today)
    /\ effectiveProjectionDays' =
            EffectiveProjectionDays(maxRelevantDate', today)
    /\ chartEndDate' = ChartEndDate(today, effectiveProjectionDays')
    /\ pc' = "aggregate"
    /\ UNCHANGED <<inputs, now, calls, transactionsByDay, salary, walk>>

\* Lines 426-447.
AggregateRecords ==
    /\ pc = "aggregate"
    /\ transactionsByDay' =
            AddExpenses(AddIncomes(EmptyMap, incomes, today, 1),
                        expenses, today, 1)
    /\ pc' = "salary"
    /\ UNCHANGED <<inputs, now, calls, horizon, salary, walk>>

\* Faulty variant: a salary of zero is projected too.
SalaryEnabledAtZero(profile) ==
    profile # NullProfile /\ profile.salaryIncome >= 0

\* Line 452: userProfile && userProfile.salaryIncome > 0
SalaryEnabled(profile) == profile # NullProfile /\ profile.salaryIncome > 0

\* Line 555: userProfile && userProfile.loans && userProfile.loans.length > 0
LoansEnabled(profile) == profile # NullProfile /\ Len(profile.loans) > 0

\* Lines 452 and 523-527: the salary branch is entered or skipped.
SalaryEnter ==
    /\ pc = "salary"
    /\ IF SalaryEnabled(userProfile)
       THEN /\ tempDate' = today
            /\ loopCount' = 0
            /\ pc' = "salaryLoop"
       ELSE /\ pc' = "loans"
            /\ UNCHANGED <<tempDate, loopCount>>
    /\ UNCHANGED <<inputs, now, calls, horizon, transactionsByDay,
                   projectedSalaryPayments, walk>>

\* Faulty variant: the id of the event is built from the clock reading.
SalaryPaymentIdFromClock(nextPay, count, profile, createdAt) ==
    [id |-> <<createdAt, count>>,
     client |-> profile.salaryFrequency,
     amount |-> SalaryPerPayPeriod(profile),
     dueDate |-> nextPay,
     status |-> "Outstanding",
     createdAt |-> createdAt]

\* Lines 536-543: the synthetic salary event, createdAt being the reading of
\* the clock at line 542.
SalaryPayment(nextPay, count, profile, createdAt) ==
    [id |-> <<DateKey(nextPay), count>>,
     client |-> profile.salaryFrequency,
     amount |-> SalaryPerPayPeriod(profile),
     dueDate |-> nextPay,
     status |-> "Outstanding",
     createdAt |-> createdAt]

\* Lines 528-551: one test of the while condition and one pass of its body.
SalaryIter ==
    /\ pc = "salaryLoop"
    /\ \E limit \in {ProjectionLimitDate(chartEndDate)},
          nextPay \in {getNextPayday(tempDate, userProfile.salaryFrequency)} :
           IF SalaryLoopContinues(tempDate, limit, loopCount)
              /\ nextPay # NULL /\ nextPay <= limit
           THEN /\ transactionsByDay' =
                       MapAdd(transactionsByDay, DateKey(nextPay),
                              SalaryPerPayPeriod(userProfile))
                /\ \E createdAt \in now..callEnd :
                       /\ projectedSalaryPayments' =
                              Append(projectedSalaryPayments,
                                     SalaryPayment(nextPay, loopCount,
                                                   userProfile, createdAt))
                       /\ now' = createdAt
                /\ tempDate' = AdvanceCursor(nextPay)
                /\ loopCount' = loopCount + 1
                /\ pc' = "salaryLoop"
           ELSE /\ pc' = "loans"
                /\ UNCHANGED <<transactionsByDay, salary, now>>
    /\ UNCHANGED <<inputs, calls, horizon, walk>>

\* Lines 555-583.
ProjectLoanPayments ==
    /\ pc = "loans"
    /\ transactionsByDay' =
            IF LoansEnabled(userProfile)
            THEN ProjectLoans(transactionsByDay, userProfile.loans, today,
                              effectiveProjectionDays, 1)
            ELSE transactionsByDay
    /\ userProfile' =
            IF LoansEnabled(userProfile)
            THEN [userProfile EXCEPT !.loans =
                    LoansAfterWalk(userProfile.loans, today,
                                   effectiveProjectionDays)]
            ELSE userProfile
    /\ pc' = "seed"
    /\ UNCHANGED <<localTZA, today, currentBalance, incomes, expenses, now,
                   calls, horizon, salary, walk>>

\* Lines 586-588: the series starts with today's balance.
SeedForecast ==
    /\ pc = "seed"
    /\ forecastData' = <<SeedPoint(today, currentProjectedBalance)>>
    /\ currentIterationDate' = setHours0(today)
    /\ i' = 0
    /\ pc' = "walk"
    /\ UNCHANGED <<inputs, now, calls, horizon, transactionsByDay, salary,
                   currentProjectedBalance, potentialShortfallDate,
                   hasShortfall>>

\* Lines 591-604: one pass of the daily loop.
WalkDay ==
    /\ pc = "walk"
    /\ WalkContinues(i, effectiveProjectionDays)
    /\ LET dailyNetChange ==
               MapGet(transactionsByDay, DateKey(currentIterationDate))
       IN  /\ currentProjectedBalance' =
                   Plus(currentProjectedBalance, dailyNetChange)
           /\ forecastData' =
                   Append(forecastData,
                          [date |-> currentIterationDate,
                           balance |-> currentProjectedBalance'])
           /\ IF SetsShortfall(currentProjectedBalance', hasShortfall)
              THEN /\ potentialShortfallDate' = currentIterationDate
                   /\ hasShortfall' = TRUE
              ELSE UNCHANGED <<potentialShortfallDate, hasShortfall>>
    /\ currentIterationDate' = NextIterationDate(currentIterationDate)
    /\ i' = i + 1
    /\ UNCHANGED <<inputs, now, calls, pc, horizon, transactionsByDay, salary>>

\* Line 606.
Return ==
    /\ pc = "walk"
    /\ ~WalkContinues(i, effectiveProjectionDays)
    /\ pc' = "done"
    /\ UNCHANGED <<inputs, now, calls, horizon, transactionsByDay, salary, walk>>

Next ==
    \/ FindHorizon
    \/ AggregateRecords
    \/ SalaryEnter
    \/ SalaryIter
    \/ ProjectLoanPayments
    \/ SeedForecast
    \/ WalkDay
    \/ Return

Spec == Init /\ [][Next]_vars


(***************************************************************************)
(* Properties.  forecastData[1] is the seed (index 0 of the source array), *)
(* forecastData[2..] are the points pushed by the daily walk.              *)
(***************************************************************************)
Returned == pc = "done"
SeriesStarted == pc \in {"walk", "done"}
LastPoint == forecastData[Len(forecastData)]
\* The calendar day of an instant is the day of the local time zone.
CalendarDay(t) == LocalDayOf(t)
OneDayApart(a, b) == CalendarDay(b.date) = CalendarDay(a.date) + 1

\* C1 as stated: every two consecutive points of forecastData, the seed
\* included, are dated exactly one calendar day apart.
C1_AllPointsOneDayApart ==
    \A j \in 1..(Len(forecastData) - 1) :
        OneDayApart(forecastData[j], forecastData[j + 1])

\* C1, amended: the points after the seed are dated today, today + 1 day,
\* ... with consecutive points exactly one calendar day apart, and the seed
\* is dated today as well, so that today is the date of the first two points
\* and every later day of exactly one.
C1_WalkPointsContiguous ==
    SeriesStarted =>
        /\ forecastData[1].date = today
        /\ Len(forecastData) >= 2 => forecastData[2].date = today
        /\ \A j \in 2..(Len(forecastData) - 1) :
               OneDayApart(forecastData[j], forecastData[j + 1])

C1_Witness ==
    /\ Returned
    /\ Len(forecastData) > 40
    /\ getMonth(LastPoint.date) # getMonth(today)

\* C2: the returned forecastData has effectiveProjectionDays + 2 points.
C2_SeriesLength ==
    Returned => Len(forecastData) = effectiveProjectionDays + 2

C2_Witness ==
    /\ Returned
    /\ effectiveProjectionDays > MinProjectionDays
    /\ Len(forecastData) = effectiveProjectionDays + 2

\* C3: the first point of the series is dated today and carries the
\* currentBalance argument, whatever is due today.
C3_SeedIsToday ==
    SeriesStarted =>
        /\ forecastData[1].date = today
        /\ forecastData[1].balance = Whole(currentBalance)

C3_Witness ==
    /\ Returned
    /\ MapGet(transactionsByDay, DateKey(today)) # Whole(0)
    /\ forecastData[1].balance = Whole(currentBalance)
    /\ forecastData[2].balance # Whole(currentBalance)


\* The points of the daily walk with a strictly negative balance.
NegativeWalkPoints ==
    {j \in 2..Len(forecastData) : IsNegative(forecastData[j].balance)}
NegativePoints ==
    {j \in 1..Len(forecastData) : IsNegative(forecastData[j].balance)}
First(S) == CHOOSE j \in S : \A k \in S : j <= k

\* The rule of lines 598-601 alone: at every moment of the daily walk and at
\* the return, the shortfall date is the date of the earliest point pushed by
\* the daily walk whose balance is strictly negative, and once it is set no
\* later step changes it.
FirstNegativeWalkPointKept ==
    /\ [](SeriesStarted /\ NegativeWalkPoints # {} =>
            potentialShortfallDate =
                forecastData[First(NegativeWalkPoints)].date)
    /\ [][potentialShortfallDate # NULL =>
            potentialShortfallDate' = potentialShortfallDate]_vars

\* The call of C4's example: a balance of 0 and one expense of 100 entered for
\* tomorrow.
ExpenseDueTomorrow ==
    /\ currentBalance = 0
    /\ incomes = <<>>
    /\ expenses = <<Expense(DueIn(today, 1), 100)>>
    /\ userProfile = NullProfile

\* C4: the returned shortfall date is the date of the earliest point of the
\* daily walk whose balance is strictly negative, and with a balance of 0 and
\* an expense of 100 due tomorrow the shortfall date is tomorrow.
C4_ShortfallOnFirstNegativeDay ==
    /\ Returned /\ NegativeWalkPoints # {} =>
          potentialShortfallDate = forecastData[First(NegativeWalkPoints)].date
    /\ Returned /\ ExpenseDueTomorrow =>
          /\ potentialShortfallDate # NULL
          /\ CalendarDay(potentialShortfallDate) = CalendarDay(today) + 1

\* C5: when no point of the daily walk has a strictly negative balance, the
\* shortfall date is null; a balance of exactly zero does not set it.
C5_NoShortfallWithoutNegative ==
    SeriesStarted /\ NegativeWalkPoints = {} =>
        potentialShortfallDate = NULL /\ ~hasShortfall

C5_Witness ==
    /\ Returned
    /\ NegativeWalkPoints = {}
    /\ \E j \in 2..Len(forecastData) :
            /\ forecastData[j].balance = Whole(0)
            /\ forecastData[j - 1].balance.num > 0
    /\ potentialShortfallDate = NULL


\* The records that pass the filters, by their index in the arrays.
RelevantIncomes ==
    {k \in 1..Len(incomes) :
        incomes[k].status = "Outstanding" /\ incomes[k].dueDate >= today}
RelevantExpenses == {k \in 1..Len(expenses) : expenses[k].date >= today}
RelevantDates ==
    {incomes[k].dueDate : k \in RelevantIncomes}
        \cup {expenses[k].date : k \in RelevantExpenses}

\* The whole number of days from today to d (d >= today).
WholeDays(d) ==
    CHOOSE n \in 0..(d - today) :
        /\ n * oneDayInMillis <= d - today
        /\ d - today < (n + 1) * oneDayInMillis
Maximum(S) == CHOOSE x \in S : \A y \in S : y <= x
HorizonLength ==
    Maximum({MinProjectionDays} \cup {WholeDays(d) : d \in RelevantDates})

\* C6: the horizon length is max(D, 30), D the whole number of days from
\* today to the latest date among the records that pass the filters, and the
\* last point of the series is dated today + the horizon length.
C6_HorizonLength ==
    /\ pc # "horizon" => effectiveProjectionDays = HorizonLength
    /\ Returned =>
          LastPoint.date = today + HorizonLength * oneDayInMillis

\* The latest record is more than 30 days ahead and not at midnight.
C6_Witness ==
    /\ Returned
    /\ effectiveProjectionDays > MinProjectionDays
    /\ TimeInDay(Maximum(RelevantDates)) # 0
    /\ LastPoint.date = today + effectiveProjectionDays * oneDayInMillis

RECURSIVE SumOver(_, _)
SumOver(S, f) ==
    IF S = {} THEN 0
    ELSE LET x == CHOOSE y \in S : TRUE
         IN  f[x] + SumOver(S \ {x}, f)

\* The same sum over computed numbers.
RECURSIVE SumOfNumbers(_, _)
SumOfNumbers(S, f) ==
    IF S = {} THEN Whole(0)
    ELSE LET x == CHOOSE y \in S : TRUE
         IN  Plus(f[x], SumOfNumbers(S \ {x}, f))

\* The calendar days of the points of the series, and the date keys under
\* which the daily walk looks up their changes.
SeriesDays == {CalendarDay(forecastData[j].date) : j \in 1..Len(forecastData)}
SeriesKeys == {DateKey(forecastData[j].date) : j \in 1..Len(forecastData)}

\* The salary payments and the loan deductions that fall on days of the
\* series.
SalaryInSeries ==
    LET S == {k \in 1..Len(projectedSalaryPayments) :
                 CalendarDay(projectedSalaryPayments[k].dueDate)
                    \in SeriesDays}
    IN  SumOfNumbers(S, [k \in S |-> projectedSalaryPayments[k].amount])
LoansInSeries ==
    IF userProfile = NullProfile THEN Whole(0)
    ELSE LET m == ProjectLoans(EmptyMap, userProfile.loans, today,
                               effectiveProjectionDays, 1)
             S == (DOMAIN m) \cap SeriesKeys
         IN  SumOfNumbers(S, [k \in S |-> m[k]])

\* C7: every income and every expense that passes the filter is dated on the
\* day of some point of the series, and the balance of the last point is the
\* current balance plus all these incomes minus all these expenses (plus the
\* salary payments and loan deductions of the series days).
C7_RecordsCovered ==
    Returned =>
        /\ \A d \in RelevantDates : CalendarDay(d) \in SeriesDays
        /\ LastPoint.balance =
              Plus(Whole(currentBalance
                         + SumOver(RelevantIncomes,
                                   [k \in RelevantIncomes |-> incomes[k].amount])
                         - SumOver(RelevantExpenses,
                                   [k \in RelevantExpenses |->
                                       expenses[k].amount])),
                   Plus(SalaryInSeries, LoansInSeries))

NoData == incomes = <<>> /\ expenses = <<>> /\ userProfile = NullProfile
FlatSeries ==
    \A j \in 1..Len(forecastData) :
        forecastData[j].balance = Whole(currentBalance)

\* C8 as stated: without income, expense and profile the horizon is 30 days,
\* the series has 31 points, all at currentBalance, and the shortfall date is
\* null when currentBalance >= 0.
C8_NoDataThirtyOnePoints ==
    Returned /\ NoData =>
        /\ effectiveProjectionDays = 30
        /\ Len(forecastData) = 31
        /\ FlatSeries
        /\ currentBalance >= 0 => potentialShortfallDate = NULL

\* C8, amended: without income, expense and profile the horizon is 30 days,
\* the series has 32 points (the seed and one point for each of the 31 days
\* today .. today + 30), all at currentBalance, and the shortfall date is
\* null when currentBalance >= 0.
C8_NoDataThirtyTwoPoints ==
    Returned /\ NoData =>
        /\ effectiveProjectionDays = 30
        /\ Len(forecastData) = 32
        /\ FlatSeries
        /\ currentBalance >= 0 => potentialShortfallDate = NULL

C8_Witness ==
    /\ Returned /\ NoData
    /\ currentBalance > 0
    /\ Len(forecastData) = 32
    /\ potentialShortfallDate = NULL

\* The 15th of the cursor's month when the cursor is on or before the 15th,
\* the 15th of the following month otherwise.
FifteenthOnOrAfter(cursor) ==
    IF getDate(cursor) <= 15
    THEN NewDate(getFullYear(cursor), getMonth(cursor), 15)
    ELSE NewDate(getFullYear(cursor), getMonth(cursor) + 1, 15)

MonthOf(t) == <<getFullYear(t), getMonth(t)>>

\* C9: with a monthly salary the payday rule returns the 15th on or after the
\* cursor, so every salary event is dated the 15th of a month and no two
\* events lie in the same calendar month.
C9_MonthlyPaydayIsFifteenth ==
    userProfile # NullProfile /\ userProfile.salaryFrequency = "monthly" =>
        /\ pc = "salaryLoop" =>
              getNextPayday(tempDate, "monthly") = FifteenthOnOrAfter(tempDate)
        /\ \A k \in 1..Len(projectedSalaryPayments) :
              getDate(projectedSalaryPayments[k].dueDate) = 15
        /\ \A k, l \in 1..Len(projectedSalaryPayments) :
              k # l => MonthOf(projectedSalaryPayments[k].dueDate)
                          # MonthOf(projectedSalaryPayments[l].dueDate)

\* The earliest day on or after the cursor that is the 1st or the 15th of a
\* month.
FirstOrFifteenthOnOrAfter(cursor) ==
    LET days == {NewDate(getFullYear(cursor), getMonth(cursor),
                         getDate(cursor) + k) : k \in 0..31}
        S == {d \in days : d >= cursor /\ getDate(d) \in {1, 15}}
    IN  CHOOSE d \in S : \A e \in S : d <= e

\* C10: with a fortnightly salary the payday rule returns, for every cursor
\* the salary loop reaches, the earliest date on or after the cursor whose
\* day of the month is 1 or 15.
C10_FortnightlyPaydayIsNext ==
    /\ pc = "salaryLoop"
    /\ userProfile.salaryFrequency = "fortnightly"
    => getNextPayday(tempDate, "fortnightly")
          = FirstOrFifteenthOnOrAfter(tempDate)

(***************************************************************************)
(* Calls with a salary and nothing else, for every today of a range of     *)
(* consecutive days (all days of the week, all days of a month).           *)
(***************************************************************************)
MaxTodayOffset == 59
SalaryTodays ==
    {NewDate(2025, 0, 1) + k * oneDayInMillis : k \in 0..MaxTodayOffset}

InitSalary ==
    /\ localTZA \in TimeZones
    /\ today \in SalaryTodays
    /\ currentBalance = 1000
    /\ incomes = <<>>
    /\ expenses = <<>>
    /\ userProfile \in
          {Profile(sal, f, ds, <<>>) :
              sal \in {30000, 30001},
              f \in Frequencies,
              ds \in Arrays(DeductionChoices, MaxDeductions)}
    /\ SingleCall
    /\ Entry

SpecSalary == InitSalary /\ [][Next]_vars

SalaryLoopLeft == pc \in {"loans", "seed", "walk", "done"}
EventDate(k) == projectedSalaryPayments[k].dueDate

\* The earliest Monday strictly after t.
MondayAfter(t) ==
    CHOOSE d \in {setHours0(t) + k * oneDayInMillis : k \in 1..7} :
        getDay(d) = 1

\* C11: with a weekly salary every salary event falls on a Monday; the first
\* is the earliest Monday strictly after today (today + 7 days when today is
\* a Monday) and each later one is exactly 7 days after the one before it.
C11_WeeklyOnMondays ==
    userProfile.salaryFrequency = "weekly" =>
        /\ SalaryLoopLeft => Len(projectedSalaryPayments) >= 1
        /\ \A k \in 1..Len(projectedSalaryPayments) :
              /\ getDay(EventDate(k)) = 1
              /\ k = 1 => EventDate(k) = MondayAfter(today)
              /\ k > 1 => EventDate(k) = EventDate(k - 1) + 7 * oneDayInMillis

\* Today is a Monday: the first event is a week later, others follow.
C11_Witness ==
    /\ Returned
    /\ userProfile.salaryFrequency = "weekly"
    /\ getDay(today) = 1
    /\ Len(projectedSalaryPayments) >= 4
    /\ EventDate(1) = today + 7 * oneDayInMillis
    /\ EventDate(4) = today + 28 * oneDayInMillis

\* Gross salary minus the sum of all deduction amounts.
NetMonthlySalary ==
    LET D == 1..Len(userProfile.deductions)
    IN  userProfile.salaryIncome
            - SumOver(D, [k \in D |-> userProfile.deductions[k].amount])
PayPeriodsPerMonth ==
    CASE userProfile.salaryFrequency = "monthly" -> 1
      [] userProfile.salaryFrequency = "fortnightly" -> 2
      [] userProfile.salaryFrequency = "weekly" -> 4

\* C12: every salary event carries the amount (gross salary minus the sum of
\* the deductions) divided by the pay periods per month of the frequency
\* (1, 2 or 4), the same for all events of the call, and negative when the
\* deductions exceed the gross salary.  The quotient is exact: the amount
\* times the pay periods is the net salary, whole or not.
C12_EventAmount ==
    \A k \in 1..Len(projectedSalaryPayments) :
        /\ projectedSalaryPayments[k].amount.num * PayPeriodsPerMonth
              = NetMonthlySalary * projectedSalaryPayments[k].amount.den
        /\ projectedSalaryPayments[k].amount
              = projectedSalaryPayments[1].amount
        /\ NetMonthlySalary < 0 =>
              IsNegative(projectedSalaryPayments[k].amount)

\* Weekly events of a profile whose deductions exceed the gross salary by an
\* amount that is not a multiple of 4: each event is -9999 / 4 = -2499.75.
C12_Witness ==
    /\ Returned
    /\ userProfile.salaryFrequency = "weekly"
    /\ NetMonthlySalary = -9999
    /\ Len(projectedSalaryPayments) >= 2
    /\ projectedSalaryPayments[2].amount = [num |-> -9999, den |-> 4]

(***************************************************************************)
(* Calls with the profiles that switch a source off: no profile, a salary  *)
(* of zero, no loans, a salary frequency outside the three known ones.     *)
(* The function is synchronous and runs to completion, hence the fairness. *)
(***************************************************************************)
DegenerateProfiles(tdy) ==
    {NullProfile}
    \cup {Profile(sal, f, ds, ls) :
            sal \in {0, 30000},
            f \in {"weekly", "daily"},
            ds \in {<<>>, <<Deduction(5000)>>},
            ls \in {<<>>, <<Loan(2000, "monthly", DueIn(tdy, 3))>>}}

InitDegenerate ==
    /\ localTZA \in TimeZones
    /\ today \in {NewDate(2025, 0, 10), NewDate(2025, 2, 17)}
    /\ currentBalance = 1000
    /\ incomes = <<Income("Outstanding", DueIn(today, 5), 5000)>>
    /\ expenses \in {<<>>, <<Expense(DueIn(today, 10), 2000)>>}
    /\ userProfile \in DegenerateProfiles(today)
    /\ SingleCall
    /\ Entry

SpecDegenerate == InitDegenerate /\ [][Next]_vars /\ WF_vars(Next)

SalaryOff ==
    \/ userProfile = NullProfile
    \/ userProfile.salaryIncome = 0
    \/ userProfile.salaryFrequency \notin Frequencies

\* C13: every call returns: it reaches the return statement with a series,
\* and with no profile, a salary of zero or a salary frequency outside
\* {weekly, fortnightly, monthly} (division by zero) it returns no salary
\* event; nothing is thrown on the way.
C13_AlwaysReturns ==
    /\ <>Returned
    /\ [](Returned =>
            /\ Len(forecastData) = effectiveProjectionDays + 2
            /\ potentialShortfallDate \in {NULL} \cup
                  {forecastData[j].date : j \in 1..Len(forecastData)}
            /\ SalaryOff => projectedSalaryPayments = <<>>)

\* A call with a positive salary of an unknown frequency and a loan returned.
C13_Witness ==
    /\ Returned
    /\ userProfile # NullProfile
    /\ userProfile.salaryIncome > 0
    /\ userProfile.salaryFrequency = "daily"
    /\ userProfile.loans # <<>>
    /\ projectedSalaryPayments = <<>>
    /\ Len(forecastData) = effectiveProjectionDays + 2

\* The net change of each day from the incomes and expenses that pass the
\* filter.
RecordsMap ==
    AddExpenses(AddIncomes(EmptyMap, incomes, today, 1), expenses, today, 1)

\* The same with the loan deductions of the profile, and with no salary.
RecordsAndLoansMap ==
    IF userProfile = NullProfile THEN RecordsMap
    ELSE ProjectLoans(RecordsMap, userProfile.loans, today,
                      effectiveProjectionDays, 1)

\* The same with the returned salary events, and with no loan.
RECURSIVE AddEvents(_, _, _)
AddEvents(map, events, k) ==
    IF k > Len(events) THEN map
    ELSE AddEvents(MapAdd(map, DateKey(events[k].dueDate), events[k].amount),
                   events, k + 1)
RecordsAndSalaryMap == AddEvents(RecordsMap, projectedSalaryPayments, 1)

\* The balance of point j of the series that the day changes of map give:
\* the seed holds currentBalance, every later point adds its day's change.
\* The sum is taken in quarters.
RECURSIVE SeriesQuarters(_, _)
SeriesQuarters(map, j) ==
    IF j <= 1 THEN 4 * currentBalance
    ELSE SeriesQuarters(map, j - 1)
            + Quarters(MapGet(map, DateKey(forecastData[j].date)))
SeriesBalance(map, j) == Fraction(SeriesQuarters(map, j), 4)

SeriesIs(map) ==
    \A j \in 1..Len(forecastData) :
        forecastData[j].balance = SeriesBalance(map, j)

NoSalary == userProfile = NullProfile \/ userProfile.salaryIncome <= 0
NoLoans == userProfile = NullProfile \/ userProfile.loans = <<>>

\* C14: with no profile or a gross salary that is not positive, the call
\* returns no salary event and the series of the incomes, expenses and loans
\* alone; with no profile or an empty loan list, the series holds the incomes,
\* expenses and salary events only, and no loan deduction.
C14_DisabledSourcesAddNothing ==
    Returned =>
        /\ NoSalary => projectedSalaryPayments = <<>> /\ SeriesIs(RecordsAndLoansMap)
        /\ NoLoans => SeriesIs(RecordsAndSalaryMap)

\* A call with a salary of zero, a deduction, a loan and an income returned.
C14_Witness ==
    /\ Returned
    /\ userProfile # NullProfile
    /\ userProfile.salaryIncome = 0
    /\ userProfile.salaryFrequency = "weekly"
    /\ userProfile.deductions # <<>>
    /\ userProfile.loans # <<>>
    /\ incomes # <<>>
    /\ LastPoint.balance = Whole(currentBalance + 5000 - 2000)

\* C15: no step of the call changes an argument: today's value, the balance,
\* the incomes, the expenses and the profile, each loan's stored
\* nextPaymentDate included, are after every step what they were before it.
C15_InputsUnchanged == [][inputs' = inputs]_vars

\* The call returned after the working date of a loan moved away from the
\* stored date, which is still the one passed in.
C15_Witness ==
    /\ Returned
    /\ userProfile # NullProfile
    /\ Len(userProfile.loans) = 1
    /\ userProfile.loans[1].nextPaymentDate = DueIn(today, 3)
    /\ LoanWalkEnd(userProfile.loans[1],
                   setHours0(userProfile.loans[1].nextPaymentDate),
                   today, effectiveProjectionDays, 0)
          > userProfile.loans[1].nextPaymentDate

(***************************************************************************)
(* Two calls with the same arguments on the same day: the Dashboard calls  *)
(* the engine at every render (line 2030).  The second call starts when    *)
(* the first has returned or later, on the same day, and the clock may     *)
(* move on during either call.                                             *)
(***************************************************************************)
InitTwoCalls ==
    /\ localTZA \in TimeZones
    /\ today = NewDate(2025, 0, 10)
    /\ currentBalance = 0
    /\ incomes = <<>>
    /\ expenses \in {<<>>, <<Expense(DueIn(today, 1), 100)>>}
    /\ userProfile \in
          {Profile(30000, "monthly", <<>>, <<>>),
           Profile(30000, "weekly", <<Deduction(5000)>>,
                   <<Loan(2000, "monthly", DueIn(today, 3))>>)}
    /\ now \in {today, today + HalfDay}
    /\ callEnd \in {now, now + 1}
    /\ callNo = 1
    /\ firstCall = NoCall
    /\ Entry

\* Line 2030, at the next render: what the first call returned is kept, and
\* the engine is entered again with the same arguments, today being the same
\* day.
CallAgain ==
    /\ pc = "done"
    /\ callNo = 1
    /\ firstCall' = CallResult(forecastData, potentialShortfallDate,
                               projectedSalaryPayments)
    /\ callNo' = 2
    /\ now' \in {t \in callEnd..(callEnd + 1) : setHours0(t) = today}
    /\ callEnd' \in {now', now' + 1}
    /\ pc' = "horizon"
    /\ maxRelevantDate' = today
    /\ effectiveProjectionDays' = 0
    /\ chartEndDate' = today
    /\ transactionsByDay' = EmptyMap
    /\ projectedSalaryPayments' = <<>>
    /\ tempDate' = today
    /\ loopCount' = 0
    /\ currentProjectedBalance' = Whole(currentBalance)
    /\ potentialShortfallDate' = NULL
    /\ hasShortfall' = FALSE
    /\ forecastData' = <<>>
    /\ currentIterationDate' = today
    /\ i' = 0
    /\ UNCHANGED inputs

NextTwoCalls ==
    \/ Next
    \/ CallAgain

SpecTwoCalls == InitTwoCalls /\ [][NextTwoCalls]_vars

\* C16: two calls with the same balance, incomes, expenses and profile and
\* the same value of today return the same series (dates and balances), the
\* same shortfall date and the same synthetic salary events (ids, labels,
\* amounts, dates), whatever the clock shows during the calls.
C16_TwoCallsAgree ==
    callNo = 2 /\ Returned =>
        LET second == CallResult(forecastData, potentialShortfallDate,
                                 projectedSalaryPayments)
        IN  /\ second.forecastData = firstCall.forecastData
            /\ second.potentialShortfallDate = firstCall.potentialShortfallDate
            /\ second.projectedSalaryPayments
                  = firstCall.projectedSalaryPayments

\* The second call returned a shortfall date and several salary events; the
\* clock moved on during it, and its readings are not those of the first
\* call.
C16_Witness ==
    /\ callNo = 2 /\ Returned
    /\ potentialShortfallDate # NULL
    /\ Len(projectedSalaryPayments) >= 2
    /\ projectedSalaryPayments[1].createdAt
          # projectedSalaryPayments[2].createdAt
    /\ \E k \in 1..Len(projectedSalaryPayments) :
          projectedSalaryPayments[k].createdAt # firstCall.createdAt[k]

\* What each source moves on one calendar day.
IncomeOn(day) ==
    LET S == {k \in RelevantIncomes : CalendarDay(incomes[k].dueDate) = day}
    IN  SumOver(S, [k \in S |-> incomes[k].amount])
ExpenseOn(day) ==
    LET S == {k \in RelevantExpenses : CalendarDay(expenses[k].date) = day}
    IN  SumOver(S, [k \in S |-> expenses[k].amount])
SalaryOn(day) ==
    LET S == {k \in 1..Len(projectedSalaryPayments) :
                 CalendarDay(projectedSalaryPayments[k].dueDate) = day}
    IN  SumOfNumbers(S, [k \in S |-> projectedSalaryPayments[k].amount])
LoanDeductions ==
    IF userProfile = NullProfile THEN EmptyMap
    ELSE ProjectLoans(EmptyMap, userProfile.loans, today,
                      effectiveProjectionDays, 1)
\* What the loan walk deducts on the walk date of date key key.
LoanPaymentsOn(loanMap, key) == Minus(Whole(0), MapGet(loanMap, key))

DayOffset(n) == today + n * oneDayInMillis
ExampleInput ==
    /\ currentBalance = 1000
    /\ incomes = <<Income("Outstanding", DueIn(today, 5), 5000)>>
    /\ expenses = <<Expense(DueIn(today, 10), 2000)>>
    /\ userProfile = NullProfile

\* C17: each point after the seed differs from the point before it by what
\* its calendar day holds: the filtered outstanding incomes due that day
\* minus the filtered expenses of that day plus the salary events of that day
\* minus the loan payments of that day.  With a balance of 1000, an income of
\* 5000 due in 5 days, an expense of 2000 in 10 days and no profile, the
\* balance is 6000 at day 5 and 4000 at day 10, and there is no shortfall.
C17_DailyChangeIsSumOfSources ==
    /\ Returned =>
          LET loanMap == LoanDeductions
          IN  \A j \in 2..Len(forecastData) :
                LET day == CalendarDay(forecastData[j].date)
                IN  Minus(forecastData[j].balance,
                          forecastData[j - 1].balance) =
                        Plus(Whole(IncomeOn(day) - ExpenseOn(day)),
                             Minus(SalaryOn(day),
                                   LoanPaymentsOn(
                                       loanMap,
                                       DateKey(forecastData[j].date))))
    /\ Returned /\ ExampleInput =>
          /\ \A j \in 2..Len(forecastData) :
                /\ forecastData[j].date = DayOffset(5) =>
                      forecastData[j].balance = Whole(6000)
                /\ forecastData[j].date = DayOffset(10) =>
                      forecastData[j].balance = Whole(4000)
          /\ potentialShortfallDate = NULL

\* The day n calendar months after the day of t: the same day of the month,
\* or the last day of the month when the month is shorter.
AddCalendarMonths(t, n) ==
    LET mi == getMonth(t) + n
        yy == getFullYear(t) + FloorDiv(mi, 12)
        mm == mi % 12
        dd == IF getDate(t) <= DaysInMonth(yy, mm)
              THEN getDate(t) ELSE DaysInMonth(yy, mm)
    IN  NewDate(yy, mm, dd)

MonthsOfPeriod(paymentFrequency) ==
    CASE paymentFrequency = "monthly" -> 1
      [] paymentFrequency = "quarterly" -> 3
      [] paymentFrequency = "annually" -> 12

HorizonEndDay == CalendarDay(today) + effectiveProjectionDays

\* The days d0, d0 + f, d0 + 2f, ... up to the horizon end.
ExpectedLoanDays(loan) ==
    {d \in {CalendarDay(
                AddCalendarMonths(loan.nextPaymentDate,
                                  k * MonthsOfPeriod(loan.paymentFrequency))) :
               k \in 0..(effectiveProjectionDays \div 28 + 1)} :
        d <= HorizonEndDay}

\* The calendar days of the walk dates on which the loan walk deducts this
\* loan.
LoanDeductionDays(loan) ==
    LET m == ProjectLoan(EmptyMap, loan, setHours0(loan.nextPaymentDate),
                         today, effectiveProjectionDays, 0)
    IN  {CalendarDay(today) + k : k \in {n \in 0..effectiveProjectionDays :
            DateKey(today + n * oneDayInMillis) \in DOMAIN m}}

\* C18: a loan whose stored next-payment date d0 lies within
\* [today, horizon end] is deducted on exactly the days d0, d0 + f,
\* d0 + 2f, ... up to the horizon end, f being one calendar month, three
\* calendar months or one calendar year, and on no other day.
C18_LoanDeductionDates ==
    Returned /\ userProfile # NullProfile =>
        \A n \in 1..Len(userProfile.loans) :
            LET loan == userProfile.loans[n]
            IN  /\ CalendarDay(loan.nextPaymentDate) >= CalendarDay(today)
                /\ CalendarDay(loan.nextPaymentDate) <= HorizonEndDay
                => LoanDeductionDays(loan) = ExpectedLoanDays(loan)

(***************************************************************************)
(* Calls with one monthly loan of 2000 due in three days or due two days   *)
(* ago, on each of the days 2025-01-01 .. 2025-03-01, without records or   *)
(* with one expense 75 days ahead.                                         *)
(***************************************************************************)
ExampleLoan(tdy) == Loan(2000, "monthly", DueIn(tdy, 3))
\* A monthly loan whose stored date is two days before today.
OverdueLoan(tdy) == Loan(2000, "monthly", DueIn(tdy, -2))

InitLoan ==
    /\ localTZA \in TimeZones
    /\ today \in SalaryTodays
    /\ currentBalance = 1000
    /\ incomes = <<>>
    /\ expenses \in {<<>>, <<Expense(DueIn(today, 75), 100)>>}
    /\ userProfile \in
          {Profile(30000, "monthly", <<>>, <<ln>>) :
              ln \in {ExampleLoan(today), OverdueLoan(today)}}
    /\ SingleCall
    /\ Entry

SpecLoan == InitLoan /\ [][Next]_vars

\* What point j of the series loses beyond the incomes, expenses and salary
\* events that the day map holds for it.
SeriesLoanDeduction(j) ==
    Minus(MapGet(RecordsAndSalaryMap, DateKey(forecastData[j].date)),
          Minus(forecastData[j].balance, forecastData[j - 1].balance))

WalkPointOf(day) ==
    CHOOSE j \in 2..Len(forecastData) : CalendarDay(forecastData[j].date) = day

ExampleLoanInput ==
    /\ userProfile # NullProfile
    /\ userProfile.loans = <<ExampleLoan(today)>>

DayThree == CalendarDay(today) + 3
MonthAfterDayThree ==
    CalendarDay(AddCalendarMonths(ExampleLoan(today).nextPaymentDate, 1))

\* C19 as stated: with one monthly loan of 2000 due in three days and no
\* incomes or expenses, the series loses 2000 at day 3 and 2000 again one
\* calendar month after day 3.
C19_SecondDeductionWithoutRecords ==
    Returned /\ ExampleLoanInput /\ incomes = <<>> /\ expenses = <<>> =>
        /\ SeriesLoanDeduction(WalkPointOf(DayThree)) = Whole(2000)
        /\ \E j \in 2..Len(forecastData) :
              /\ CalendarDay(forecastData[j].date) = MonthAfterDayThree
              /\ SeriesLoanDeduction(j) = Whole(2000)

\* C19, amended: with one monthly loan of 2000 due in three days and no
\* incomes or expenses, the series loses 2000 at day 3 and nothing to the
\* loan at any other point: the horizon is 30 days, and the day one calendar
\* month after day 3 lies past its end.
C19_OnlyDeductionAtDayThree ==
    Returned /\ ExampleLoanInput /\ incomes = <<>> /\ expenses = <<>> =>
        /\ SeriesLoanDeduction(WalkPointOf(DayThree)) = Whole(2000)
        /\ effectiveProjectionDays = MinProjectionDays
        /\ MonthAfterDayThree > HorizonEndDay
        /\ \A j \in 2..Len(forecastData) :
              CalendarDay(forecastData[j].date) # DayThree =>
                  SeriesLoanDeduction(j) = Whole(0)

\* A call without records returned a series that loses 2000 on day 3 and
\* ends on the eve of the day one calendar month after day 3.
C19_Witness ==
    /\ Returned /\ ExampleLoanInput
    /\ incomes = <<>> /\ expenses = <<>>
    /\ SeriesLoanDeduction(WalkPointOf(DayThree)) = Whole(2000)
    /\ MonthAfterDayThree = HorizonEndDay + 1

(***************************************************************************)
(* Calls with a salary and a horizon of 30 or of 720 days: a weekly salary *)
(* has more than 100 paydays in 720 days.                                  *)
(***************************************************************************)
InitLong ==
    /\ localTZA \in TimeZones
    /\ today \in {NewDate(2025, 0, 10), NewDate(2025, 0, 31)}
    /\ currentBalance = 1000
    /\ incomes = <<>>
    /\ expenses \in {<<>>,
                     <<Expense(DueIn(today, 720), 100)>>}
    /\ userProfile \in {Profile(30000, f, <<>>, <<>>) : f \in Frequencies}
    /\ SingleCall
    /\ Entry

SpecLong == InitLong /\ [][Next]_vars

DayAfterHorizonEnd == DayOffset(effectiveProjectionDays + 1)

\* C20: there are never more than 100 salary events, every event is dated
\* from today to the day after the horizon end, and the salary loop is left
\* only after 100 events or when the next payday from the cursor is later
\* than the day after the horizon end.
C20_SalaryLoopBounded ==
    /\ [](/\ Len(projectedSalaryPayments) <= 100
          /\ \A k \in 1..Len(projectedSalaryPayments) :
                /\ today <= projectedSalaryPayments[k].dueDate
                /\ projectedSalaryPayments[k].dueDate <= DayAfterHorizonEnd)
    /\ [][pc = "salaryLoop" /\ pc' = "loans" =>
            \/ Len(projectedSalaryPayments) = 100
            \/ getNextPayday(tempDate, userProfile.salaryFrequency)
                  > DayAfterHorizonEnd]_vars

\* A call returned 100 weekly salary events although the Monday after the
\* last one is still within the horizon.
C20_Witness ==
    /\ Returned
    /\ Len(projectedSalaryPayments) = 100
    /\ projectedSalaryPayments[100].dueDate + 7 * oneDayInMillis
          <= DayAfterHorizonEnd

\* C21: in the salary loop the payday computed from the cursor is on or
\* after the cursor and the events are strictly increasing in date.  Every
\* pass of the loop moves the cursor forward, to at most one day past the
\* limit date, so the loop ends after finitely many passes; with fewer than
\* 100 paydays in the horizon it is left below the cap, with the next payday
\* from the cursor later than the limit date.
C21_PaydaysAdvance ==
    /\ [](pc = "salaryLoop" =>
            getNextPayday(tempDate, userProfile.salaryFrequency) >= tempDate)
    /\ [](\A k \in 2..Len(projectedSalaryPayments) :
            EventDate(k - 1) < EventDate(k))
    /\ [][pc = "salaryLoop" /\ pc' = "salaryLoop" =>
            /\ tempDate' > tempDate
            /\ tempDate' <= DayAfterHorizonEnd + oneDayInMillis]_vars
    /\ [][pc = "salaryLoop" /\ pc' = "loans" =>
            /\ loopCount < MaxSalaryLoops
            /\ getNextPayday(tempDate, userProfile.salaryFrequency)
                  > DayAfterHorizonEnd]_vars

\* A monthly call returned with a payday that equals its cursor (the last
\* day of a month) and at least three events.
C21_Witness ==
    /\ Returned
    /\ userProfile.salaryFrequency = "monthly"
    /\ Len(projectedSalaryPayments) >= 3
    /\ getNextPayday(today, "monthly") = today
    /\ EventDate(1) = today

\* The record lists without the paid incomes, the incomes due before today
\* and the expenses dated before today.
IsKeptIncome(inc) == inc.status # "Paid" /\ ~(inc.dueDate < today)
IsKeptExpense(exp) == ~(exp.date < today)
KeptIncomes == SelectSeq(incomes, IsKeptIncome)
KeptExpenses == SelectSeq(expenses, IsKeptExpense)
KeptRecordsMap ==
    AddExpenses(AddIncomes(EmptyMap, KeptIncomes, today, 1),
                KeptExpenses, today, 1)
KeptRecordsAndProfileMap ==
    IF userProfile = NullProfile THEN KeptRecordsMap
    ELSE ProjectLoans(AddEvents(KeptRecordsMap, projectedSalaryPayments, 1),
                      userProfile.loans, today, effectiveProjectionDays, 1)

\* C22: the call computes what it would compute without the paid incomes,
\* the incomes due before today and the expenses dated before today: the
\* same horizon length (from which the salary events follow), the same day
\* changes of the records, and the same balances (from which the shortfall
\* date follows).
C22_ExcludedRecordsHaveNoEffect ==
    /\ pc # "horizon" =>
          effectiveProjectionDays =
              EffectiveProjectionDays(
                  MaxRelevantDate(KeptIncomes, KeptExpenses, today), today)
    /\ pc = "salary" => transactionsByDay = KeptRecordsMap
    /\ Returned => SeriesIs(KeptRecordsAndProfileMap)

\* A call with a paid income 50 days ahead, an expense of yesterday and an
\* expense of tomorrow returned a 30-day series that holds the last only.
C22_Witness ==
    /\ Returned
    /\ \E k \in 1..Len(incomes) :
          incomes[k].status = "Paid" /\ incomes[k].dueDate > DayOffset(30)
    /\ \E k \in 1..Len(expenses) : expenses[k].date < today
    /\ KeptExpenses # <<>>
    /\ effectiveProjectionDays = 30
    /\ LastPoint.balance = Whole(currentBalance - 100)

AllSalaryEvents ==
    SumOfNumbers(1..Len(projectedSalaryPayments),
                 [k \in 1..Len(projectedSalaryPayments) |->
                     projectedSalaryPayments[k].amount])

\* C23: every returned salary event is dated on the day of a point of the
\* series, not later than the last point, and the balance of the last point
\* holds the amounts of all of them.
C23_EventsInSeries ==
    Returned =>
        /\ \A k \in 1..Len(projectedSalaryPayments) :
              /\ CalendarDay(EventDate(k)) \in SeriesDays
              /\ EventDate(k) <= LastPoint.date
        /\ LastPoint.balance =
              Plus(Whole(currentBalance
                         + SumOver(RelevantIncomes,
                                   [k \in RelevantIncomes |-> incomes[k].amount])
                         - SumOver(RelevantExpenses,
                                   [k \in RelevantExpenses |->
                                       expenses[k].amount])),
                   Plus(AllSalaryEvents, LoansInSeries))

\* C24 as stated: when any point of the returned series, the seed included,
\* has a strictly negative balance, the returned shortfall date is not null.
C24_AnyNegativePointSetsShortfall ==
    Returned /\ NegativePoints # {} => potentialShortfallDate # NULL

\* C24, amended: the returned shortfall date is not null exactly when a point
\* pushed by the daily walk has a strictly negative balance; a negative seed
\* (currentBalance < 0) that an income due today brings back to a
\* non-negative balance leaves it null.
C24_NegativeWalkPointSetsShortfall ==
    Returned =>
        /\ NegativeWalkPoints # {} <=> potentialShortfallDate # NULL
        /\ IsNegative(forecastData[1].balance) /\ NegativeWalkPoints = {} =>
              potentialShortfallDate = NULL

\* A call with a negative balance and an income due today returned a series
\* whose only negative point is the seed, and a null shortfall date.
C24_Witness ==
    /\ Returned
    /\ currentBalance < 0
    /\ IsNegative(forecastData[1].balance)
    /\ ~IsNegative(forecastData[2].balance)
    /\ NegativeWalkPoints = {}
    /\ potentialShortfallDate = NULL

\* The first of the days d0, d0 + f, d0 + 2f, ... that is on or after today.
FirstOccurrenceFromToday(loan) ==
    LET occ(k) == AddCalendarMonths(loan.nextPaymentDate,
                                    k * MonthsOfPeriod(loan.paymentFrequency))
        k0 == CHOOSE k \in 0..24 :
                 /\ CalendarDay(occ(k)) >= CalendarDay(today)
                 /\ \A l \in 0..(k - 1) :
                        CalendarDay(occ(l)) < CalendarDay(today)
    IN  CalendarDay(occ(k0))

\* C25: a loan whose stored next-payment date is before today is deducted in
\* the series on its first occurrence on or after today, when the horizon
\* holds that day.
C25_OverdueLoanRolledForward ==
    Returned /\ userProfile # NullProfile =>
        \A n \in 1..Len(userProfile.loans) :
            LET loan == userProfile.loans[n]
            IN  /\ CalendarDay(loan.nextPaymentDate) < CalendarDay(today)
                /\ FirstOccurrenceFromToday(loan) <= HorizonEndDay
                => SeriesLoanDeduction(
                       WalkPointOf(FirstOccurrenceFromToday(loan)))
                     = Whole(loan.amount)

\* Calendar months counted from year 0, of an instant and of an epoch day.
MonthIndex(t) == getFullYear(t) * 12 + getMonth(t)
MonthIndexOfDay(d) == MonthIndex(LocalInstant(d, 0))

\* C26: a monthly loan whose first payment lies inside the horizon is
\* deducted at most once in any calendar month, and exactly once in each
\* calendar month after that of the first payment that lies wholly before
\* the month of the horizon end, whatever the payment day.
C26_MonthlyLoanEveryMonth ==
    Returned /\ userProfile # NullProfile =>
        \A n \in 1..Len(userProfile.loans) :
            LET loan == userProfile.loans[n]
                days == LoanDeductionDays(loan)
                inMonth(m) == {d \in days : MonthIndexOfDay(d) = m}
            IN  /\ loan.paymentFrequency = "monthly"
                /\ CalendarDay(loan.nextPaymentDate) >= CalendarDay(today)
                /\ CalendarDay(loan.nextPaymentDate) <= HorizonEndDay
                => /\ \A d \in days : Cardinality(inMonth(MonthIndexOfDay(d))) = 1
                   /\ \A m \in (MonthIndex(loan.nextPaymentDate) + 1)
                                 ..(MonthIndexOfDay(HorizonEndDay) - 1) :
                         Cardinality(inMonth(m)) = 1

\* The paydays of the recurrence rule from today to the horizon end: the
\* Mondays after today, the 1st and the 15th of every month, or the 15th of
\* every month.
RulePaydays(frequency) ==
    {d \in {DayOffset(n) : n \in 0..effectiveProjectionDays} :
        CASE frequency = "weekly" -> getDay(d) = 1 /\ d > today
          [] frequency = "fortnightly" -> getDate(d) \in {1, 15}
          [] frequency = "monthly" -> getDate(d) = 15
          [] OTHER -> FALSE}

\* C27: every payday of the rule from today to the horizon end is the date
\* of a returned salary event, and the series point of that day holds the
\* payment, however long the horizon is.
C27_EveryPaydayProjected ==
    Returned /\ SalaryEnabled(userProfile) =>
        LET loanMap == LoanDeductions
        IN  \A d \in RulePaydays(userProfile.salaryFrequency) :
              /\ \E k \in 1..Len(projectedSalaryPayments) : EventDate(k) = d
              /\ \E j \in 2..Len(forecastData) :
                    /\ forecastData[j].date = d
                    /\ Minus(forecastData[j].balance,
                             forecastData[j - 1].balance)
                          = Plus(Whole(IncomeOn(CalendarDay(d))
                                       - ExpenseOn(CalendarDay(d))),
                                 Minus(SalaryPerPayPeriod(userProfile),
                                       LoanPaymentsOn(loanMap, DateKey(d))))

\* The sum of the salary events dated in calendar month m.
SalaryInMonth(m) ==
    LET S == {k \in 1..Len(projectedSalaryPayments) :
                 MonthIndex(EventDate(k)) = m}
    IN  SumOfNumbers(S, [k \in S |-> projectedSalaryPayments[k].amount])

\* C28: with a positive net salary (gross minus deductions), the salary
\* events dated in any one calendar month sum to no more than the monthly
\* net salary.
C28_MonthlySalaryNotExceeded ==
    Returned /\ SalaryEnabled(userProfile) /\ NetMonthlySalary > 0 =>
        \A k \in 1..Len(projectedSalaryPayments) :
            Quarters(SalaryInMonth(MonthIndex(EventDate(k))))
                <= 4 * NetMonthlySalary

(***************************************************************************)
(* The older copy of the engine, generateMockForecast of src/src/App.tsx   *)
(* (lines 173-361), as a function of its arguments.  Its profile carries   *)
(* one number, deductionsAmount, instead of a deduction list, and has no   *)
(* loans; the rest of its text is that of the newer copy.                  *)
(***************************************************************************)
OldProfile(salaryIncome, salaryFrequency, deductionsAmount) ==
    [salaryIncome |-> salaryIncome, salaryFrequency |-> salaryFrequency,
     deductionsAmount |-> deductionsAmount]

\* App.tsx lines 236-246: (salaryIncome - (deductionsAmount || 0)) divided by
\* the pay periods per month, a division of numbers.
OldSalaryPerPayPeriod(profile) ==
    IF NumPayrollsPerMonth(profile.salaryFrequency) = 0 THEN NonFinite
    ELSE Fraction(profile.salaryIncome - profile.deductionsAmount,
                  NumPayrollsPerMonth(profile.salaryFrequency))

\* App.tsx lines 312-335: the while loop, from cursor temp and count on; the
\* result is the day map and the list of salary events.  Every push reads
\* the clock (App.tsx line 326): clock is the sequence of its readings, the
\* push of pass count taking clock[count + 1].
RECURSIVE OldSalaryLoop(_, _, _, _, _, _, _)
OldSalaryLoop(profile, temp, limit, count, map, events, clock) ==
    LET nextPay == getNextPayday(temp, profile.salaryFrequency)
    IN  IF temp <= limit /\ count < 100 /\ nextPay # NULL /\ nextPay <= limit
        THEN OldSalaryLoop(
                profile, setDate(nextPay, getDate(nextPay) + 1), limit,
                count + 1,
                MapAdd(map, DateKey(nextPay), OldSalaryPerPayPeriod(profile)),
                Append(events,
                       [id |-> <<DateKey(nextPay), count>>,
                        client |-> profile.salaryFrequency,
                        amount |-> OldSalaryPerPayPeriod(profile),
                        dueDate |-> nextPay,
                        status |-> "Outstanding",
                        createdAt |-> clock[count + 1]]),
                clock)
        ELSE [map |-> map, events |-> events]

\* App.tsx lines 345-358: the daily loop from day k on.
RECURSIVE OldWalk(_, _, _, _, _, _, _, _)
OldWalk(map, days, k, date, balance, shortfall, flagged, data) ==
    IF k > days
    THEN [forecastData |-> data, potentialShortfallDate |-> shortfall]
    ELSE LET b == Plus(balance, MapGet(map, DateKey(date)))
         IN  OldWalk(map, days, k + 1, setDate(date, getDate(date) + 1), b,
                     IF IsNegative(b) /\ ~flagged THEN date ELSE shortfall,
                     flagged \/ IsNegative(b),
                     Append(data, [date |-> date, balance |-> b]))

\* App.tsx lines 173-361, clock being the readings of the clock at the
\* pushes of the salary loop.
OldGenerateMockForecast(balance, incs, exps, profile, tdy, clock) ==
    LET maxDate == MaxRelevantDate(incs, exps, tdy)
        days == EffectiveProjectionDays(maxDate, tdy)
        chartEnd == ChartEndDate(tdy, days)
        records == AddExpenses(AddIncomes(EmptyMap, incs, tdy, 1),
                               exps, tdy, 1)
        sal == IF profile # NullProfile /\ profile.salaryIncome > 0
               THEN OldSalaryLoop(profile, tdy,
                                  setDate(chartEnd, getDate(chartEnd) + 1),
                                  0, records, <<>>, clock)
               ELSE [map |-> records, events |-> <<>>]
        w == OldWalk(sal.map, days, 0, setHours0(tdy), Whole(balance), NULL,
                     FALSE, <<[date |-> tdy, balance |-> Whole(balance)]>>)
    IN  [forecastData |-> w.forecastData,
         potentialShortfallDate |-> w.potentialShortfallDate,
         projectedSalaryPayments |-> sal.events]

\* The profile of the older copy that corresponds to the profile of the call:
\* its deductionsAmount is the sum of the deduction list.
CorrespondingOldProfile ==
    IF userProfile = NullProfile THEN NullProfile
    ELSE OldProfile(userProfile.salaryIncome, userProfile.salaryFrequency,
                    userProfile.salaryIncome - NetMonthlySalary)

\* What the clock showed at the pushes of the call, and the time of its
\* return for the pushes it did not make.
ClockOfCall ==
    [k \in 1..MaxSalaryLoops |->
        IF k <= Len(projectedSalaryPayments)
        THEN projectedSalaryPayments[k].createdAt
        ELSE callEnd]

\* C29: a call with no profile or a profile without loans returns the
\* series, the shortfall date and the salary events that the older copy of
\* the engine returns for the same today, balance, incomes and expenses,
\* the profile whose deductionsAmount is the sum of the deduction list, and
\* the same readings of the clock.
C29_CopiesAgree ==
    Returned /\ NoLoans =>
        LET old == OldGenerateMockForecast(currentBalance, incomes, expenses,
                                           CorrespondingOldProfile, today,
                                           ClockOfCall)
        IN  /\ forecastData = old.forecastData
            /\ potentialShortfallDate = old.potentialShortfallDate
            /\ projectedSalaryPayments = old.projectedSalaryPayments

\* A call with a salary, a deduction, an expense and no loan returned, the
\* net salary not being a multiple of the pay periods.
C29_Witness ==
    /\ Returned
    /\ userProfile # NullProfile
    /\ userProfile.loans = <<>>
    /\ userProfile.deductions # <<>>
    /\ expenses # <<>>
    /\ Len(projectedSalaryPayments) >= 2
    /\ projectedSalaryPayments[1].amount.den > 1
    /\ projectedSalaryPayments[1].amount.num * PayPeriodsPerMonth
          = (userProfile.salaryIncome - userProfile.deductions[1].amount)
                * projectedSalaryPayments[1].amount.den

(***************************************************************************)
(* The salary projection of the Profile page, lines 1517-1603, and the     *)
(* filter of the Dashboard over the events of the engine, lines 2032-2038. *)
(***************************************************************************)
\* Faulty variant: the Profile page looks 31 days ahead.
ThirtyDaysFromNowForProfileOff(tdy) == setDate(tdy, getDate(tdy) + 31)

\* Lines 1532-1533: new Date(today), setDate(today.getDate() + 30).
ThirtyDaysFromNowForProfile(tdy) == setDate(tdy, getDate(tdy) + 30)

\* Lines 1539-1547: the monthly rule of getNextPaydayProfile.
PaydayMonthlyProfile(currentDate) ==
    LET p0 == setDate(setHours0(currentDate), 15)
        p1 == IF p0 < currentDate
              THEN setDate(setMonth(p0, getMonth(p0) + 1), 15)
              ELSE p0
        p2 == IF getMonth(p1)
                 # (getMonth(currentDate)
                      + (IF p1 < currentDate THEN 1 ELSE 0)) % 12
              THEN NewDate(getFullYear(p1), getMonth(p1), 0)
              ELSE p1
    IN  p2

\* Lines 1535-1581; the fortnightly and the weekly rule have the text of
\* getNextPayday.
getNextPaydayProfile(currentDate, frequency) ==
    IF frequency = "monthly" THEN setHours0(PaydayMonthlyProfile(currentDate))
    ELSE IF frequency = "fortnightly"
    THEN setHours0(PaydayFortnightly(currentDate))
    ELSE IF frequency = "weekly" THEN setHours0(PaydayWeekly(currentDate))
    ELSE NULL

\* Lines 1583-1602: the while loop from cursor tempPayDate and loopCount on;
\* of each pushed payment the due date and the amount are kept.
RECURSIVE ProfileSalaryLoop(_, _, _, _, _)
ProfileSalaryLoop(profile, tempPayDate, limit, count, payments) ==
    LET nextPayDate == getNextPaydayProfile(tempPayDate, profile.salaryFrequency)
    IN  IF tempPayDate <= limit /\ count < 100
           /\ nextPayDate # NULL /\ nextPayDate <= limit
        THEN ProfileSalaryLoop(
                profile, setDate(nextPayDate, getDate(nextPayDate) + 1),
                limit, count + 1,
                Append(payments,
                       [dueDate |-> nextPayDate,
                        amount |-> SalaryPerPayPeriod(profile)]))
        ELSE payments

\* Lines 1517-1603: projectedSalaryPaymentsForProfile.
ProjectedSalaryPaymentsForProfile(profile, tdy) ==
    IF profile # NullProfile /\ profile.salaryIncome > 0
    THEN ProfileSalaryLoop(profile, tdy, ThirtyDaysFromNowForProfile(tdy),
                           0, <<>>)
    ELSE <<>>

\* Lines 2032-2038: the salary events of the engine that the Dashboard
\* lists, thirtyDaysFromNow being 30 days after the clock reading, which is
\* timeOfDay after today's midnight.
RECURSIVE DashboardSalaryPayments(_, _, _)
DashboardSalaryPayments(events, thirtyDaysFromNow, k) ==
    IF k > Len(events) THEN <<>>
    ELSE (IF events[k].dueDate <= thirtyDaysFromNow
          THEN <<[dueDate |-> events[k].dueDate, amount |-> events[k].amount]>>
          ELSE <<>>)
         \o DashboardSalaryPayments(events, thirtyDaysFromNow, k + 1)

\* C30: the salary payments of the Profile page, by due date and amount, are
\* the salary events of the engine that are dated up to today + 30 days,
\* which are those the Dashboard lists at any time of the day.
C30_ProfileAndDashboardAgree ==
    Returned =>
        \A timeOfDay \in 0..(oneDayInMillis - 1) :
            ProjectedSalaryPaymentsForProfile(userProfile, today)
                = DashboardSalaryPayments(projectedSalaryPayments,
                                          DayOffset(30) + timeOfDay, 1)

\* A monthly call returned an event on today + 31 days, which neither list
\* holds, after an event on the last day of a month, which both hold.
C30_Witness ==
    /\ Returned
    /\ userProfile.salaryFrequency = "monthly"
    /\ \E k \in 1..Len(projectedSalaryPayments) :
          EventDate(k) = DayOffset(31)
    /\ \E k \in 1..Len(projectedSalaryPayments) :
          getDate(EventDate(k) + oneDayInMillis) = 1
    /\ Len(ProjectedSalaryPaymentsForProfile(userProfile, today))
          = Len(projectedSalaryPayments) - 1

====
